---- MODULE Spec2Model ----
(***************************************************************************)
(* Model of src/inference_engines.py: the backend resolver (EnvConfig),    *)
(* the two backend adapters (vLLM "fast-serving", Ollama "local-runner"),  *)
(* the unified dispatcher (invoke_llm / stream_llm) and the chat-model     *)
(* adapter (SpandaLLM).                                                    *)
(*                                                                         *)
(* Strings are TLA+ strings.  A line of a streamed response body is a      *)
(* sequence of tokens: the single characters that matter to                *)
(* str.lstrip("data: ") and str.strip(), and atomic tokens standing for a  *)
(* whole JSON text, the end marker or a piece of garbage.                  *)
(***************************************************************************)
EXTENDS Naturals, Sequences, FiniteSets, TLC

VARIABLES
    env,         \* process environment: VLLM_URL, VLLM_MODEL, OLLAMA_URL, OLLAMA_MODEL
    entry,       \* the operation the caller invoked ("idle" before the call)
    config,      \* the EnvConfig the operation works with
    prompt,      \* argument prompt
    messages,    \* argument messages
    net,         \* what the backend does with the request of this call
    pc,          \* "idle", "streaming", "done" or "raised"
    adapter,     \* the adapter the call reached: "none", "vllm" or "ollama"
    model,       \* the model argument handed to the adapter
    requests,    \* the network requests issued, in order
    result,      \* the InvocationResult returned by a non-streaming call
    resolved,    \* the pair returned by get_model_and_url
    lines,       \* the lines of the response body read so far
    adapterOut,  \* the deltas yielded by the adapter's stream
    yielded,     \* the deltas yielded by stream_llm
    content,     \* SpandaLLM._astream's accumulator
    events,      \* the contents of the AIMessages yielded by _astream
    generations, \* the contents of the generations returned by _agenerate
    raised       \* the exception that reached the caller, or "none"

vars == <<env, entry, config, prompt, messages, net, pc, adapter, model,
          requests, result, resolved, lines, adapterOut, yielded, content,
          events, generations, raised>>

-----------------------------------------------------------------------------
(* Bounds *)

MaxLines == 3

-----------------------------------------------------------------------------
(* Python values *)

None == "None"

\* bool(s) of an Optional[str]
Truthy(s) == s # None /\ s # ""

EmptyDict == <<>>

NoResult == [kind |-> "none"]
Answer(a) == [kind |-> "result", answer |-> a]
Error(e) == [kind |-> "result", error |-> e]

\* dict.get(key, default)
Get(d, key, default) == IF key \in DOMAIN d THEN d[key] ELSE default

-----------------------------------------------------------------------------
(* EnvConfig *)

EnvConfig(e) ==
    [vllm_url |-> e.VLLM_URL, vllm_model |-> e.VLLM_MODEL,
     ollama_url |-> e.OLLAMA_URL, ollama_model |-> e.OLLAMA_MODEL]

is_vllm_available(c) == Truthy(c.vllm_url) /\ Truthy(c.vllm_model)

is_ollama_available(c) == Truthy(c.ollama_url) /\ Truthy(c.ollama_model)

get_model_and_url_swapped(c) ==
    IF is_ollama_available(c) THEN <<c.ollama_model, c.ollama_url>>
    ELSE IF is_vllm_available(c) THEN <<c.vllm_model, c.vllm_url>>
    ELSE <<None, None>>

get_model_and_url(c) ==
    IF is_vllm_available(c) THEN <<c.vllm_model, c.vllm_url>>
    ELSE IF is_ollama_available(c) THEN <<c.ollama_model, c.ollama_url>>
    ELSE <<None, None>>

\* the module-level globals vllm_url and ollama_url, read once at import
vllm_url(e) == e.VLLM_URL
ollama_url(e) == e.OLLAMA_URL

-----------------------------------------------------------------------------
(* Text: str.lstrip, str.strip, json.loads *)

Whitespace == {" "}

RECURSIVE lstrip(_, _)
lstrip(s, chars) ==
    IF s # <<>> /\ Head(s) \in chars THEN lstrip(Tail(s), chars) ELSE s

RECURSIVE rstrip(_, _)
rstrip(s, chars) ==
    IF s # <<>> /\ s[Len(s)] \in chars
    THEN rstrip(SubSeq(s, 1, Len(s) - 1), chars) ELSE s

strip(s) == rstrip(lstrip(s, Whitespace), Whitespace)

\* the characters of the argument of line.lstrip("data: ")
DataPrefixChars == {"d", "a", "t", ":", " "}

\* the JSON texts of the model and the values json.loads gives for them
JsonTexts ==
    {"{choices:[{delta:{content:Hel}}]}", "{choices:[{delta:{content:lo}}]}",
     "{choices:[{delta:{}}]}", "{choices:[]}",
     "{choices:[{message:{content:Hi}}]}", "{}",
     "{response:Hel}", "{response:lo}", "null"}

JsonValue(t) ==
    CASE t = "{choices:[{delta:{content:Hel}}]}" ->
             [choices |-> <<[delta |-> [content |-> "Hel"]]>>]
      [] t = "{choices:[{delta:{content:lo}}]}" ->
             [choices |-> <<[delta |-> [content |-> "lo"]]>>]
      [] t = "{choices:[{delta:{}}]}" -> [choices |-> <<[delta |-> EmptyDict]>>]
      [] t = "{choices:[]}" -> [choices |-> <<>>]
      [] t = "{choices:[{message:{content:Hi}}]}" ->
             [choices |-> <<[message |-> [content |-> "Hi"]]>>]
      [] t = "{response:Hel}" -> [response |-> "Hel"]
      [] t = "{response:lo}" -> [response |-> "lo"]
      [] OTHER -> EmptyDict

\* json.loads: surrounding whitespace is allowed, anything but one JSON
\* text is a JSONDecodeError
json_loads(text) ==
    LET s == strip(text) IN
    IF Len(s) = 1 /\ s[1] \in JsonTexts
    THEN IF s[1] = "null" THEN [kind |-> "null"]
         ELSE [kind |-> "dict", value |-> JsonValue(s[1])]
    ELSE [kind |-> "JSONDecodeError"]

-----------------------------------------------------------------------------
(* Arguments and backend behaviour *)

\* bool(messages) of an Optional[List]
TruthyList(msgs) == msgs = "[msgs]"

RECURSIVE Join(_)
Join(s) == IF s = <<>> THEN "" ELSE Head(s) \o Join(Tail(s))

\* response.text
ResponseText(n) == Join(n.body)

Request(url, m, stream) == [url |-> url, model |-> m, stream |-> stream]

-----------------------------------------------------------------------------
(* Fast-serving adapter, non-streaming *)

invoke_llm_vllm(m, p, msgs, e, n) ==
    IF ~TruthyList(msgs) /\ p = None
    THEN \* prompt[0] while the payload is built, outside the try block
         [requests |-> <<>>, result |-> NoResult, raised |-> "TypeError"]
    ELSE IF ~Truthy(vllm_url(e))
    THEN \* httpx rejects the URL before anything is sent
         [requests |-> <<>>, result |-> Error("InvalidURL"), raised |-> "none"]
    ELSE
      [requests |-> <<Request(vllm_url(e), m, FALSE)>>,
       raised |-> "none",
       result |->
         IF n.transport = "timeout" THEN Error("Request timed out")
         ELSE IF n.transport = "error" THEN Error("ConnectError")
         ELSE IF n.status = 200
         THEN LET data == json_loads(n.body) IN
              IF data.kind = "JSONDecodeError" THEN Error("JSONDecodeError")
              ELSE IF data.kind # "dict" THEN Error("AttributeError")
              ELSE LET choices == Get(data.value, "choices", <<EmptyDict>>) IN
                   IF Len(choices) = 0 THEN Error("IndexError")
                   ELSE Answer(Get(Get(choices[1], "message", EmptyDict),
                                   "content", ""))
         ELSE Error(ResponseText(n))]

-----------------------------------------------------------------------------
(* Local-runner adapter, non-streaming *)

invoke_llm_ollama(ollama_model, p, msgs, e, n) ==
    LET m == e.OLLAMA_MODEL   \* model = os.getenv("OLLAMA_MODEL")
    IN
    IF ~Truthy(ollama_url(e))
    THEN [requests |-> <<>>, result |-> Error("InvalidURL"), raised |-> "none"]
    ELSE
      [requests |-> <<Request(ollama_url(e) \o "/api/generate", m, FALSE)>>,
       raised |-> "none",
       result |->
         IF n.transport = "timeout" THEN Error("Request timed out")
         ELSE IF n.transport = "error" THEN Error("ConnectError")
         ELSE LET response_data == json_loads(n.body) IN
              IF response_data.kind = "JSONDecodeError"
              THEN Error("JSONDecodeError")
              ELSE IF n.status = 200
              THEN IF response_data.kind # "dict" THEN Error("TypeError")
                   ELSE IF "response" \notin DOMAIN response_data.value
                   THEN Error("KeyError")
                   ELSE Answer(response_data.value["response"])
              ELSE Error(ResponseText(n))]

-----------------------------------------------------------------------------
(* Fast-serving adapter, streaming *)

stream_on_exception_swallow(exc) == [outcome |-> "end", exc |-> "none"]

\* except Exception as e: print(...); raise
stream_on_exception(exc) == [outcome |-> "raise", exc |-> exc]

\* up to the point where the response headers are in
stream_llm_vllm_start(m, p, msgs, e, n) ==
    IF ~TruthyList(msgs) /\ p = None
    THEN [requests |-> <<>>, outcome |-> "raise", exc |-> "TypeError"]
    ELSE IF ~Truthy(vllm_url(e))
    THEN [requests |-> <<>>] @@ stream_on_exception("InvalidURL")
    ELSE IF n.transport # "ok"
    THEN [requests |-> <<Request(vllm_url(e), m, TRUE)>>]
             @@ stream_on_exception("TransportError")
    ELSE [requests |-> <<Request(vllm_url(e), m, TRUE)>>,
          outcome |-> IF n.status = 200 THEN "continue" ELSE "end",
          exc |-> "none"]

\* the body of the loop over response.aiter_lines()
stream_llm_vllm_line(line) ==
    IF line = <<>> THEN [act |-> "skip"]
    ELSE LET raw_line == strip(lstrip(line, DataPrefixChars)) IN
         IF raw_line = <<"[DONE]">> THEN [act |-> "break"]
         ELSE LET data == json_loads(raw_line) IN
              IF data.kind = "JSONDecodeError" THEN [act |-> "skip"]
              ELSE IF data.kind # "dict"
              THEN [act |-> "raise", exc |-> "AttributeError"]
              ELSE LET choices == Get(data.value, "choices", <<EmptyDict>>) IN
                   IF Len(choices) = 0
                   THEN [act |-> "raise", exc |-> "IndexError"]
                   ELSE LET c == Get(Get(choices[1], "delta", EmptyDict),
                                     "content", "")
                        IN IF Truthy(c) THEN [act |-> "yield", delta |-> c]
                           ELSE [act |-> "skip"]

-----------------------------------------------------------------------------
(* Local-runner adapter, streaming *)

stream_llm_ollama_start(ollama_model, p, msgs, e, n) ==
    IF ~Truthy(ollama_url(e))
    THEN [requests |-> <<>>] @@ stream_on_exception("InvalidURL")
    ELSE IF n.transport # "ok"
    THEN [requests |-> <<Request(ollama_url(e) \o "/api/generate",
                                 ollama_model, TRUE)>>]
             @@ stream_on_exception("TransportError")
    ELSE [requests |-> <<Request(ollama_url(e) \o "/api/generate",
                                 ollama_model, TRUE)>>,
          outcome |-> "continue", exc |-> "none"]

stream_llm_ollama_line(line) ==
    IF line = <<>> THEN [act |-> "skip"]
    ELSE LET data == json_loads(line) IN
         IF data.kind = "JSONDecodeError" THEN [act |-> "skip"]
         ELSE IF data.kind # "dict" THEN [act |-> "raise", exc |-> "TypeError"]
         ELSE IF "response" \in DOMAIN data.value
         THEN [act |-> "yield", delta |-> data.value["response"]]
         ELSE [act |-> "skip"]

-----------------------------------------------------------------------------
(* Unified dispatcher *)

NoServiceText == "No LLM service available for model"

invoke_llm_unchecked(p, msgs, c, e, n) ==
    LET mu == get_model_and_url(c) IN
    IF is_vllm_available(c)
    THEN [adapter |-> "vllm", model |-> mu[1]]
             @@ invoke_llm_vllm(mu[1], p, msgs, e, n)
    ELSE [adapter |-> "ollama", model |-> mu[1]]
             @@ invoke_llm_ollama(mu[1], p, msgs, e, n)

invoke_llm(p, msgs, c, e, n) ==
    LET mu == get_model_and_url(c) IN
    IF ~Truthy(mu[1]) \/ ~Truthy(mu[2])
    THEN [adapter |-> "none", model |-> None, requests |-> <<>>,
          result |-> Error(NoServiceText), raised |-> "none"]
    ELSE IF is_vllm_available(c)
    THEN [adapter |-> "vllm", model |-> mu[1]]
             @@ invoke_llm_vllm(mu[1], p, msgs, e, n)
    ELSE [adapter |-> "ollama", model |-> mu[1]]
             @@ invoke_llm_ollama(mu[1], p, msgs, e, n)

\* stream_llm up to the first item of the adapter's stream
stream_llm_start(p, msgs, c, e, n) ==
    LET mu == get_model_and_url(c) IN
    IF ~Truthy(mu[1]) \/ ~Truthy(mu[2])
    THEN [adapter |-> "none", model |-> None, requests |-> <<>>,
          own |-> <<"Error: " \o NoServiceText>>,
          outcome |-> "end", exc |-> "none"]
    ELSE IF is_vllm_available(c)
    THEN [adapter |-> "vllm", model |-> mu[1], own |-> <<>>]
             @@ stream_llm_vllm_start(mu[1], p, msgs, e, n)
    ELSE [adapter |-> "ollama", model |-> mu[1], own |-> <<>>]
             @@ stream_llm_ollama_start(mu[1], p, msgs, e, n)

stream_llm_forward_twice(chunk) == <<chunk, chunk>>

\* async for chunk in <adapter stream>: yield chunk
stream_llm_forward(chunk) == <<chunk>>

-----------------------------------------------------------------------------
(* SpandaLLM *)

astream_chunk_overwrite(acc, chunk) == [content |-> chunk, event |-> chunk]

\* content += chunk; yield AIMessage(content=chunk)
astream_chunk(acc, chunk) == [content |-> acc \o chunk, event |-> chunk]

\* yield AIMessage(content=content) after the loop
astream_final(acc) == <<acc>>

agenerate_generations_bare(r) ==
    IF "answer" \in DOMAIN r THEN <<r.answer>>
    ELSE <<Get(r, "error", None)>>

\* the message contents of the generations of the ChatResult
agenerate_generations(r) ==
    IF "answer" \in DOMAIN r THEN <<r.answer>>
    ELSE <<"Error: " \o Get(r, "error", None)>>

-----------------------------------------------------------------------------
(* Inputs *)

EnvVal(name) ==
    CASE name = "VLLM_URL" -> "http://env-fast"
      [] name = "VLLM_MODEL" -> "env-fast-model"
      [] name = "OLLAMA_URL" -> "http://env-local"
      [] name = "OLLAMA_MODEL" -> "env-local-model"

EnvNames == {"VLLM_URL", "VLLM_MODEL", "OLLAMA_URL", "OLLAMA_MODEL"}

\* every variable is unset or set
Envs == {e \in [EnvNames -> {None} \cup {EnvVal(k) : k \in EnvNames}] :
            \A k \in EnvNames : e[k] \in {None, EnvVal(k)}}

FullEnv == [k \in EnvNames |-> EnvVal(k)]

MkConfig(vu, vm, ou, om) ==
    [vllm_url |-> vu, vllm_model |-> vm, ollama_url |-> ou, ollama_model |-> om]

NoConfig == MkConfig(None, None, None, None)

\* descriptors with every field absent, empty or set
AllConfigs == {MkConfig(vu, vm, ou, om) :
                  vu \in {None, "", "http://fast"}, vm \in {None, "", "fast-model"},
                  ou \in {None, "", "http://local"}, om \in {None, "", "local-model"}}

\* the configs handed to the dispatcher: every field absent or set
CallConfigs == {c \in AllConfigs : \A k \in DOMAIN c : c[k] # ""}

Prompts == {None, "su"}
MessageLists == {None, "[]", "[msgs]"}
ModelArgs == {"arg-model"}

Bodies == {<<>>, <<"{bad">>, <<"{}">>, <<"{choices:[]}">>,
           <<"{choices:[{message:{content:Hi}}]}">>, <<"{response:Hel}">>}

NoNet == [transport |-> "ok", status |-> 200, body |-> <<>>]

\* backend behaviour on a non-streaming request
InvokeNets == {[transport |-> t, status |-> 200, body |-> <<>>] : t \in {"timeout", "error"}}
              \cup {[transport |-> "ok", status |-> st, body |-> b] :
                       st \in {200, 500}, b \in Bodies}

\* backend behaviour up to the response headers of a streaming request
StreamNets == {[transport |-> t, status |-> 200, body |-> <<>>] : t \in {"timeout", "error"}}
              \cup {[transport |-> "ok", status |-> st, body |-> <<>>] : st \in {200, 500}}

Data == <<"d", "a", "t", "a", ":", " ">>

\* lines of a streamed body
LineSet ==
    {<<>>, Data,
     <<"{choices:[{delta:{content:Hel}}]}">>,
     Data \o <<"{choices:[{delta:{content:Hel}}]}">>,
     Data \o <<"{choices:[{delta:{content:lo}}]}">>,
     <<"{choices:[{delta:{}}]}">>, Data \o <<"{}">>,
     <<"{choices:[]}">>,
     <<"[DONE]">>, Data \o <<"[DONE]">>,
     <<"{bad">>, Data \o <<"{bad">>,
     <<"a", "[DONE]">>, <<"t", "{choices:[{delta:{content:lo}}]}">>,
     <<"{response:Hel}">>, <<"{response:lo}">>, <<"null">>}

\* the lines used where the dispatcher and the chat adapter sit on top
ForwardLines ==
    {Data \o <<"{choices:[{delta:{content:Hel}}]}">>,
     Data \o <<"{choices:[{delta:{content:lo}}]}">>, <<"[DONE]">>,
     <<"{bad">>, <<"{response:lo}">>}

-----------------------------------------------------------------------------
(* State machine *)

HasDispatcher(e) == e \in {"stream_llm", "invoke_llm(stream=True)", "_astream"}
HasChat(e) == e = "_astream"

CallArgs(name, c, p, msgs, n) ==
    /\ entry' = name
    /\ config' = c
    /\ prompt' = p
    /\ messages' = msgs
    /\ net' = n
    /\ UNCHANGED env

NoStream == UNCHANGED <<lines, adapterOut, yielded, content, events>>

\* One resumption of the generator chain entered at e: the adapter yields
\* fromAdapter, the dispatcher forwards it and adds own, the chat adapter
\* re-emits what the dispatcher yields; the chain then waits for the next
\* line ("continue"), ends ("end") or raises ("raise").
RECURSIVE Forwarded(_)
Forwarded(chunks) ==
    IF chunks = <<>> THEN <<>>
    ELSE stream_llm_forward(Head(chunks)) \o Forwarded(Tail(chunks))

RECURSIVE AStreamLoop(_, _, _)
AStreamLoop(acc, evs, chunks) ==
    IF chunks = <<>> THEN [content |-> acc, events |-> evs]
    ELSE LET r == astream_chunk(acc, Head(chunks)) IN
         AStreamLoop(r.content, Append(evs, r.event), Tail(chunks))

StreamStep(e, fromAdapter, own, outcome, exc) ==
    LET fwd == IF HasDispatcher(e) THEN Forwarded(fromAdapter) \o own ELSE <<>>
        chat == AStreamLoop(content, events, fwd)
    IN
    /\ adapterOut' = adapterOut \o fromAdapter
    /\ yielded' = yielded \o fwd
    /\ content' = IF HasChat(e) THEN chat.content ELSE content
    /\ events' = IF ~HasChat(e) THEN events
                 ELSE IF outcome = "end"
                 THEN chat.events \o astream_final(chat.content)
                 ELSE chat.events
    /\ pc' = CASE outcome = "continue" -> "streaming"
               [] outcome = "end" -> "done"
               [] outcome = "raise" -> "raised"
    /\ raised' = IF outcome = "raise" THEN exc ELSE "none"

\* EnvConfig.get_model_and_url()
GetModelAndUrl ==
    /\ pc = "idle"
    /\ \E c \in AllConfigs :
          /\ CallArgs("get_model_and_url", c, None, None, NoNet)
          /\ resolved' = get_model_and_url(c)
          /\ pc' = "done"
          /\ NoStream
          /\ UNCHANGED <<adapter, model, requests, result, generations, raised>>

\* the configs a dispatcher call can work with: the caller's, or EnvConfig()
DispatchConfigs == CallConfigs \cup {EnvConfig(env)}

\* invoke_llm(prompt, messages, config, stream=False)
InvokeLlm ==
    /\ pc = "idle"
    /\ \E c \in DispatchConfigs, p \in Prompts, msgs \in MessageLists, n \in InvokeNets :
          LET r == invoke_llm(p, msgs, c, env, n) IN
          /\ CallArgs("invoke_llm", c, p, msgs, n)
          /\ resolved' = get_model_and_url(c)
          /\ adapter' = r.adapter
          /\ model' = r.model
          /\ requests' = r.requests
          /\ result' = r.result
          /\ raised' = r.raised
          /\ pc' = IF r.raised = "none" THEN "done" ELSE "raised"
          /\ NoStream
          /\ UNCHANGED generations

\* invoke_llm_vllm(model, prompt, messages)
InvokeLlmVllm ==
    /\ pc = "idle"
    /\ \E m \in ModelArgs, p \in Prompts, msgs \in MessageLists, n \in InvokeNets :
          LET r == invoke_llm_vllm(m, p, msgs, env, n) IN
          /\ CallArgs("invoke_llm_vllm", NoConfig, p, msgs, n)
          /\ adapter' = "vllm"
          /\ model' = m
          /\ requests' = r.requests
          /\ result' = r.result
          /\ raised' = r.raised
          /\ pc' = IF r.raised = "none" THEN "done" ELSE "raised"
          /\ NoStream
          /\ UNCHANGED <<resolved, generations>>

\* invoke_llm_ollama(ollama_model, prompt, messages)
InvokeLlmOllama ==
    /\ pc = "idle"
    /\ \E m \in ModelArgs, p \in Prompts, msgs \in MessageLists, n \in InvokeNets :
          LET r == invoke_llm_ollama(m, p, msgs, env, n) IN
          /\ CallArgs("invoke_llm_ollama", NoConfig, p, msgs, n)
          /\ adapter' = "ollama"
          /\ model' = m
          /\ requests' = r.requests
          /\ result' = r.result
          /\ raised' = r.raised
          /\ pc' = IF r.raised = "none" THEN "done" ELSE "raised"
          /\ NoStream
          /\ UNCHANGED <<resolved, generations>>

\* SpandaLLM._agenerate(messages)
AGenerate ==
    /\ pc = "idle"
    /\ \E c \in DispatchConfigs, msgs \in MessageLists, n \in InvokeNets :
          LET r == invoke_llm(None, msgs, c, env, n) IN
          /\ CallArgs("_agenerate", c, None, msgs, n)
          /\ resolved' = get_model_and_url(c)
          /\ adapter' = r.adapter
          /\ model' = r.model
          /\ requests' = r.requests
          /\ result' = r.result
          /\ raised' = r.raised
          /\ pc' = IF r.raised = "none" THEN "done" ELSE "raised"
          /\ generations' = IF r.raised = "none"
                            THEN agenerate_generations(r.result) ELSE <<>>
          /\ NoStream

\* stream_llm(prompt, messages, config), also reached as
\* invoke_llm(prompt, messages, config, stream=True)
StreamLlm ==
    /\ pc = "idle"
    /\ \E name \in {"stream_llm", "invoke_llm(stream=True)"}, c \in DispatchConfigs,
          p \in Prompts, msgs \in MessageLists, n \in StreamNets :
          LET s == stream_llm_start(p, msgs, c, env, n) IN
          /\ CallArgs(name, c, p, msgs, n)
          /\ resolved' = get_model_and_url(c)
          /\ adapter' = s.adapter
          /\ model' = s.model
          /\ requests' = s.requests
          /\ StreamStep(name, <<>>, s.own, s.outcome, s.exc)
          /\ UNCHANGED <<result, generations, lines>>

\* SpandaLLM._astream(messages)
AStream ==
    /\ pc = "idle"
    /\ \E c \in DispatchConfigs, msgs \in MessageLists, n \in StreamNets :
          LET s == stream_llm_start(None, msgs, c, env, n) IN
          /\ CallArgs("_astream", c, None, msgs, n)
          /\ resolved' = get_model_and_url(c)
          /\ adapter' = s.adapter
          /\ model' = s.model
          /\ requests' = s.requests
          /\ StreamStep("_astream", <<>>, s.own, s.outcome, s.exc)
          /\ UNCHANGED <<result, generations, lines>>

\* stream_llm_vllm(model, prompt, messages)
StreamLlmVllm ==
    /\ pc = "idle"
    /\ \E m \in ModelArgs, p \in Prompts, msgs \in MessageLists, n \in StreamNets :
          LET s == stream_llm_vllm_start(m, p, msgs, env, n) IN
          /\ CallArgs("stream_llm_vllm", NoConfig, p, msgs, n)
          /\ adapter' = "vllm"
          /\ model' = m
          /\ requests' = s.requests
          /\ StreamStep("stream_llm_vllm", <<>>, <<>>, s.outcome, s.exc)
          /\ UNCHANGED <<resolved, result, generations, lines>>

\* stream_llm_ollama(model, prompt, messages)
StreamLlmOllama ==
    /\ pc = "idle"
    /\ \E m \in ModelArgs, p \in Prompts, msgs \in MessageLists, n \in StreamNets :
          LET s == stream_llm_ollama_start(m, p, msgs, env, n) IN
          /\ CallArgs("stream_llm_ollama", NoConfig, p, msgs, n)
          /\ adapter' = "ollama"
          /\ model' = m
          /\ requests' = s.requests
          /\ StreamStep("stream_llm_ollama", <<>>, <<>>, s.outcome, s.exc)
          /\ UNCHANGED <<resolved, result, generations, lines>>

Frame == UNCHANGED <<env, entry, config, prompt, messages, net, adapter, model,
                     requests, result, resolved, generations>>

\* the adapter's loop reads one more line of the body
NextLine(L) ==
    /\ pc = "streaming"
    /\ Len(lines) < MaxLines
    /\ \E line \in L :
          LET r == IF adapter = "vllm" THEN stream_llm_vllm_line(line)
                   ELSE stream_llm_ollama_line(line)
          IN
          /\ lines' = Append(lines, line)
          /\ StreamStep(entry,
                        IF r.act = "yield" THEN <<r.delta>> ELSE <<>>,
                        <<>>,
                        CASE r.act \in {"yield", "skip"} -> "continue"
                          [] r.act = "break" -> "end"
                          [] r.act = "raise" -> stream_on_exception(r.exc).outcome,
                        IF r.act = "raise" THEN stream_on_exception(r.exc).exc
                        ELSE "none")
    /\ Frame

\* the body ends: the connection closes
EndOfStream ==
    /\ pc = "streaming"
    /\ StreamStep(entry, <<>>, <<>>, "end", "none")
    /\ UNCHANGED lines
    /\ Frame

\* the transport fails while the adapter waits for the next line
TransportFailure ==
    /\ pc = "streaming"
    /\ LET x == stream_on_exception("TransportError") IN
       StreamStep(entry, <<>>, <<>>, x.outcome, x.exc)
    /\ UNCHANGED lines
    /\ Frame

Idle ==
    /\ entry = "idle"
    /\ config = NoConfig
    /\ prompt = None
    /\ messages = None
    /\ net = NoNet
    /\ pc = "idle"
    /\ adapter = "none"
    /\ model = None
    /\ requests = <<>>
    /\ result = NoResult
    /\ resolved = <<None, None>>
    /\ lines = <<>>
    /\ adapterOut = <<>>
    /\ yielded = <<>>
    /\ content = ""
    /\ events = <<>>
    /\ generations = <<>>
    /\ raised = "none"

Init == env \in Envs /\ Idle

NextForwardLine == NextLine(ForwardLines)

Next ==
    \/ GetModelAndUrl
    \/ InvokeLlm
    \/ InvokeLlmVllm
    \/ InvokeLlmOllama
    \/ AGenerate
    \/ StreamLlm
    \/ AStream
    \/ StreamLlmVllm
    \/ StreamLlmOllama
    \/ NextForwardLine
    \/ EndOfStream
    \/ TransportFailure

Spec == Init /\ [][Next]_vars

\* The adapters' stream operations alone, on every line of LineSet
InitStream == env = FullEnv /\ Idle

NextBodyLine == NextLine(LineSet)

NextStream ==
    \/ StreamLlmVllm
    \/ StreamLlmOllama
    \/ NextBodyLine
    \/ EndOfStream
    \/ TransportFailure

SpecStream == InitStream /\ [][NextStream]_vars

-----------------------------------------------------------------------------
(* Properties *)

NonEmpty(x) == x \notin {None, ""}
FastPopulated(c) == NonEmpty(c.vllm_url) /\ NonEmpty(c.vllm_model)
LocalPopulated(c) == NonEmpty(c.ollama_url) /\ NonEmpty(c.ollama_model)
NoBackend(c) == ~FastPopulated(c) /\ ~LocalPopulated(c)

Called(names) == pc # "idle" /\ entry \in names

\* C1: get_model_and_url returns (fast model, fast url) when both fast
\* fields are non-empty, otherwise (local model, local url) when both local
\* fields are non-empty, otherwise (None, None); a half-populated descriptor
\* never wins and never yields a half-filled pair.
C1_ResolverPriority ==
    Called({"get_model_and_url"}) =>
       /\ FastPopulated(config) =>
             resolved = <<config.vllm_model, config.vllm_url>>
       /\ ~FastPopulated(config) /\ LocalPopulated(config) =>
             resolved = <<config.ollama_model, config.ollama_url>>
       /\ NoBackend(config) => resolved = <<None, None>>
       /\ NonEmpty(resolved[1]) <=> NonEmpty(resolved[2])

\* a half-populated fast descriptor next to a full local one: local wins
C1_Witness ==
    /\ Called({"get_model_and_url"})
    /\ config = MkConfig("http://fast", "", "http://local", "local-model")
    /\ resolved = <<"local-model", "http://local">>

\* C2: with no backend resolvable the dispatcher issues no network call;
\* invoke_llm returns a result holding only an error, stream_llm yields
\* exactly one error text and ends.
C2_NoBackendNoNetwork ==
    /\ Called({"invoke_llm"}) /\ NoBackend(config) =>
          /\ requests = <<>>
          /\ pc = "done"
          /\ DOMAIN result = {"kind", "error"}
    /\ Called({"stream_llm", "invoke_llm(stream=True)"}) /\ NoBackend(config) =>
          /\ requests = <<>>
          /\ pc = "done"
          /\ yielded = <<"Error: No LLM service available for model">>

\* invoke_llm with a half-populated config while the environment names
\* both backends
C2_Witness ==
    /\ Called({"invoke_llm"})
    /\ env = FullEnv
    /\ config = MkConfig("http://fast", None, None, "local-model")
    /\ result = Error(NoServiceText)
    /\ requests = <<>>

\* C3: invoke_llm (stream off), invoke_llm_vllm and invoke_llm_ollama never
\* raise: every call returns a result holding exactly one of answer and
\* error.
C3_InvokeNeverRaises ==
    Called({"invoke_llm", "invoke_llm_vllm", "invoke_llm_ollama"}) =>
       /\ raised = "none"
       /\ pc = "done"
       /\ ("answer" \in DOMAIN result) # ("error" \in DOMAIN result)

StartsWith(seq, pre) ==
    Len(seq) >= Len(pre) /\ SubSeq(seq, 1, Len(pre)) = pre

\* the line without its "data: " prefix, when it has one
Unprefixed(line) ==
    IF StartsWith(line, Data) THEN SubSeq(line, Len(Data) + 1, Len(line))
    ELSE line

ContentLines == {<<"{choices:[{delta:{content:Hel}}]}">>,
                 <<"{choices:[{delta:{content:lo}}]}">>}

ContentOf(body) ==
    IF body = <<"{choices:[{delta:{content:Hel}}]}">> THEN "Hel" ELSE "lo"

\* the kinds of line of a fast-serving stream
LineKind(line) ==
    LET b == Unprefixed(line) IN
    CASE b = <<>> -> "empty"
      [] b = <<"[DONE]">> -> "done"
      [] b \in ContentLines -> "content"
      [] b \in {<<"{choices:[{delta:{}}]}">>, <<"{choices:[]}">>, <<"{}">>,
                <<"{response:Hel}">>, <<"{response:lo}">>} -> "nocontent"
      [] OTHER -> "other"

RECURSIVE ContentsBeforeDone(_)
ContentsBeforeDone(ls) ==
    IF ls = <<>> \/ LineKind(Head(ls)) = "done" THEN <<>>
    ELSE IF LineKind(Head(ls)) = "content"
    THEN <<ContentOf(Unprefixed(Head(ls)))>> \o ContentsBeforeDone(Tail(ls))
    ELSE ContentsBeforeDone(Tail(ls))

\* C4: on a 200 response whose lines are empty, content-carrying JSON,
\* JSON without content (no delta content, empty choices list) or [DONE],
\* prefixed or not, stream_llm_vllm yields exactly the contents of the
\* content lines before the first [DONE], in order; a line without content
\* does not end the stream and [DONE] ends it silently.
C4_VllmStreamContents ==
    (/\ Called({"stream_llm_vllm"})
     /\ requests # <<>>
     /\ net.transport = "ok"
     /\ net.status = 200
     /\ \A i \in 1..Len(lines) : LineKind(lines[i]) # "other") =>
       /\ adapterOut = ContentsBeforeDone(lines)
       /\ raised \in {"none", "TransportError"}
       /\ (\E i \in 1..Len(lines) : LineKind(lines[i]) = "done") => pc = "done"

\* a line that is neither empty, nor the end marker, nor a JSON text, once
\* the format's own prefix and surrounding whitespace are taken off
IsJsonText(body) == Len(body) = 1 /\ body[1] \in JsonTexts

Malformed(ad, line) ==
    LET b == IF ad = "vllm" THEN strip(Unprefixed(line)) ELSE strip(line) IN
    /\ line # <<>>
    /\ ~IsJsonText(b)
    /\ ~(ad = "vllm" /\ b = <<"[DONE]">>)

\* C5: in both adapters' streams a malformed JSON line is skipped: reading
\* it yields nothing, raises nothing and does not end the sequence.
C5_MalformedLineSkipped ==
    [][(lines' # lines /\ Malformed(adapter, lines'[Len(lines')])) =>
          (adapterOut' = adapterOut /\ pc' = "streaming" /\ raised' = "none")]_vars

RECURSIVE ConcatAll(_)
ConcatAll(ds) == IF ds = <<>> THEN "" ELSE Head(ds) \o ConcatAll(Tail(ds))

\* C6: for a dispatcher sequence d1..dn that ends normally _astream emits
\* n+1 events: the i-th carries di and the last the concatenation d1+..+dn;
\* the final event comes only once the sequence has ended, exactly once.
C6_AStreamEvents ==
    Called({"_astream"}) =>
       /\ pc = "streaming" => events = yielded
       /\ pc = "done" => /\ events = Append(yielded, ConcatAll(yielded))
                         /\ Len(events) = Len(yielded) + 1

\* "Hel" + "lo" gives the events "Hel", "lo", "Hello"
C6_Witness ==
    /\ Called({"_astream"})
    /\ pc = "done"
    /\ yielded = <<"Hel", "lo">>
    /\ events = <<"Hel", "lo", "Hello">>

\* C7: _agenerate returns exactly one generation: the answer when the
\* dispatcher result holds one, "Error: " followed by the error text when
\* it holds an error; a result of the dispatcher, failure or not, is never
\* turned into an exception.
C7_AGenerateWrapsResult ==
    Called({"_agenerate"}) =>
       /\ result # NoResult =>
             /\ raised = "none"
             /\ pc = "done"
             /\ Len(generations) = 1
             /\ "answer" \in DOMAIN result => generations[1] = result.answer
             /\ "error" \in DOMAIN result =>
                   generations[1] = "Error: " \o result.error
       /\ raised # "none" => result = NoResult

\* a transport failure of the backend becomes the content of the message
C7_Witness ==
    /\ Called({"_agenerate"})
    /\ result = Error("Request timed out")
    /\ generations = <<"Error: Request timed out">>
    /\ raised = "none"

DispatcherStreams == {"stream_llm", "invoke_llm(stream=True)", "_astream"}

\* C8: with a backend resolvable stream_llm delegates to the adapter of the
\* resolver's choice (fast-serving whenever it is available, local-runner
\* otherwise) and emits exactly that adapter's sequence: every delta
\* unchanged, in order, none dropped, duplicated or added.
C8_StreamForwarding ==
    Called(DispatcherStreams) /\ ~NoBackend(config) =>
       /\ adapter = IF FastPopulated(config) THEN "vllm" ELSE "ollama"
       /\ model = IF FastPopulated(config) THEN config.vllm_model
                  ELSE config.ollama_model
       /\ yielded = adapterOut
       /\ \A i \in 1..Len(requests) : requests[i].stream

\* the local runner's deltas forwarded while the fast descriptor is
\* half-populated
C8_Witness ==
    /\ Called({"stream_llm"})
    /\ config = MkConfig("http://fast", None, "http://local", "local-model")
    /\ adapter = "ollama"
    /\ adapterOut = <<"lo", "lo">>
    /\ yielded = <<"lo", "lo">>
    /\ pc = "done"

InvokeEntries == {"invoke_llm", "invoke_llm_vllm", "invoke_llm_ollama", "_agenerate"}
StreamEntries == DispatcherStreams \cup {"stream_llm_vllm", "stream_llm_ollama"}

\* C9: a transport failure during an adapter's invoke becomes an {error}
\* result and nothing is raised; during a stream it is raised to the caller
\* after the deltas already read were yielded, it takes nothing back and
\* adds nothing, and it goes through stream_llm and _astream, whose final
\* concatenated event is never emitted for a stream that failed.
C9_TransportFailureAsymmetry ==
    /\ [](Called(InvokeEntries) /\ requests # <<>> /\ net.transport # "ok" =>
             raised = "none" /\ DOMAIN result = {"kind", "error"})
    /\ [](Called(StreamEntries) /\ requests # <<>> /\ net.transport # "ok" =>
             pc = "raised" /\ raised = "TransportError" /\ adapterOut = <<>>)
    /\ [](Called(StreamEntries) /\ raised = "TransportError" =>
             /\ pc = "raised"
             /\ entry = "_astream" => events = yielded)
    /\ [][Called(StreamEntries) /\ raised' = "TransportError" =>
             /\ pc' = "raised"
             /\ adapterOut' = adapterOut
             /\ yielded' = yielded
             /\ events' = events]_vars

\* the transport fails after _astream emitted "Hel": no final event
C9_Witness ==
    /\ Called({"_astream"})
    /\ pc = "raised"
    /\ raised = "TransportError"
    /\ lines # <<>>
    /\ yielded = <<"Hel">>
    /\ events = <<"Hel">>

\* the url and the model of the target the config resolves to
TargetUrl(c) ==
    IF FastPopulated(c) THEN c.vllm_url ELSE c.ollama_url \o "/api/generate"
TargetModel(c) == IF FastPopulated(c) THEN c.vllm_model ELSE c.ollama_model

DispatcherEntries == DispatcherStreams \cup {"invoke_llm", "_agenerate"}

\* C10: every request the dispatcher issues goes to the url of the target
\* its config resolves to and names that target's model, whatever the
\* process environment.
C10_RequestsFollowConfig ==
    Called(DispatcherEntries) =>
       \A i \in 1..Len(requests) :
          /\ requests[i].url = TargetUrl(config)
          /\ requests[i].model = TargetModel(config)

====
